---- MODULE Spec2Model ----
(***************************************************************************)
(* PGN ingestion (Importer, convert_pgn) and the query commands of         *)
(* src-tauri/src/db/mod.rs, as a state machine.                            *)
(*                                                                         *)
(* Text (header values, names) is a sequence of one-character strings, so  *)
(* that parsing and matching are computed character by character.          *)
(* Option<T> is a sequence of length at most one: None == <<>>,            *)
(* Some(v) == <<v>>.                                                       *)
(***************************************************************************)
EXTENDS Integers, Sequences, FiniteSets, TLC

\* ------------------------------------------------------------------ bounds
\* games read from the archive in one run
MaxGames == 3
\* largest batch size handed to Importer::new (convert_pgn hands it 50)
BatchSize == 2
\* moves of a game, where the archive is not fixed beforehand
MaxMoves == 1
\* calls of convert_pgn for the same archive and database file
MaxRuns == 2
\* games of a database file the query commands are called on
MaxRows == 3
\* largest limit and largest offset of a query
MaxLimit == 2
MaxOffset == 2

\* ------------------------------------------------------------------ values
None == << >>
Some(v) == << v >>
IsSome(o) == o # << >>
Unwrap(o) == o[1]

I32Max == 2147483647

\* Outcome of pgn_reader: Decisive{White}, Decisive{Black}, Draw
WhiteWins == "WhiteWins"
BlackWins == "BlackWins"
Draw == "Draw"

\* the header values of the archives
\* rnbqkbnr/pppppppp/8/8/8/8/PPPPPPPP/RNBQKBNR w KQkq - 0 1
STARTFEN ==
  << "r", "n", "b", "q", "k", "b", "n", "r", "/", "p", "p", "p", "p", "p",
     "p", "p", "p", "/", "8", "/", "8", "/", "8", "/", "8", "/", "P", "P",
     "P", "P", "P", "P", "P", "P", "/", "R", "N", "B", "Q", "K", "B", "N",
     "R", " ", "w", " ", "K", "Q", "k", "q", " ", "-", " ", "0", " ", "1" >>
BOT == << "B", "O", "T" >>
QMARK == << "?" >>

Digits == << "0", "1", "2", "3", "4", "5", "6", "7", "8", "9" >>
IsDigit(c) == \E i \in 1..10 : Digits[i] = c
DigitVal(c) == (CHOOSE i \in 1..10 : Digits[i] = c) - 1

\* btoi::btoi::<i32>: optional sign, at least one digit, digits only, no overflow
RECURSIVE btou_from(_, _, _)
btou_from(s, i, acc) ==
  IF i > Len(s) THEN Some(acc)
  ELSE IF ~IsDigit(s[i]) THEN None
  ELSE LET d == DigitVal(s[i])
       IN IF acc > (I32Max - d) \div 10 THEN None
          ELSE btou_from(s, i + 1, acc * 10 + d)

btoi(s) ==
  IF Len(s) = 0 THEN None
  ELSE IF s[1] \in {"+", "-"}
       THEN IF Len(s) = 1 THEN None
            ELSE LET m == btou_from(s, 2, 0)
                 IN IF m = None THEN None
                    ELSE IF s[1] = "-" THEN Some(0 - Unwrap(m)) ELSE m
       ELSE btou_from(s, 1, 0)

\* Outcome::from_ascii: "1-0", "0-1", "1/2-1/2"; anything else is an error
Outcome_from_ascii(s) ==
  IF s = << "1", "-", "0" >> THEN Some(WhiteWins)
  ELSE IF s = << "0", "-", "1" >> THEN Some(BlackWins)
  ELSE IF s = << "1", "/", "2", "-", "1", "/", "2" >> THEN Some(Draw)
  ELSE None

\* TempPlayer::default and TempGame::default
TempPlayer_default == [id |-> 0, name |-> None, rating |-> None]
TempGame_default ==
  [speed |-> None, fen |-> None, site |-> None, date |-> None,
   white |-> TempPlayer_default, black |-> TempPlayer_default,
   outcome |-> None, moves |-> << >>]

\* Player::default: the row used when a side has no name
Player_default == [id |-> 0, name |-> << >>, game_count |-> 0]

\* ------------------------------------------------------------------ storage (ops)
RECURSIVE MaxId(_)
MaxId(rows) ==
  IF rows = << >> THEN 0
  ELSE LET m == MaxId(Tail(rows))
       IN IF Head(rows).id > m THEN Head(rows).id ELSE m

\* create_player: the row with that name, inserted with game_count 0 if absent
create_player(ps, name) ==
  IF \E i \in DOMAIN ps : ps[i].name = name
  THEN [players |-> ps,
        player |-> ps[CHOOSE i \in DOMAIN ps : ps[i].name = name]]
  ELSE LET row == [id |-> MaxId(ps) + 1, name |-> name, game_count |-> 0]
       IN [players |-> Append(ps, row), player |-> row]

\* the NOT NULL columns of the games table that a NewGame may leave null
games_not_null(g) == IsSome(g.date) /\ IsSome(g.outcome)

\* create_game: INSERT INTO games; a NOT NULL violation is a storage error
create_game(gs, new_game) ==
  IF games_not_null(new_game)
  THEN [ok |-> TRUE, games |-> Append(gs, [new_game EXCEPT !.id = MaxId(gs) + 1])]
  ELSE [ok |-> FALSE, games |-> gs]

\* increment_game_count: UPDATE players SET game_count = game_count + 1 WHERE id = ?
increment_game_count(ps, id) ==
  [i \in DOMAIN ps |->
     IF ps[i].id = id THEN [ps[i] EXCEPT !.game_count = @ + 1] ELSE ps[i]]

\* an outcome code that gives a draw no code of its own
outcome_code_draw2(r) ==
  IF r = WhiteWins THEN 1 ELSE 2

\* the outcome code written by send (and compared by get_games)
outcome_code(r) ==
  IF r = WhiteWins THEN 1 ELSE IF r = BlackWins THEN 2 ELSE 3

\* moves.join(" "): the moves as one text, a space between two of them
RECURSIVE moves_join(_)
moves_join(ms) ==
  IF ms = << >> THEN << >>
  ELSE IF Len(ms) = 1 THEN Head(ms)
  ELSE Head(ms) \o << " " >> \o moves_join(Tail(ms))

\* NewGame as built in send
NewGame(game, white, black) ==
  [id |-> 0,
   white |-> white.id,
   black |-> black.id,
   white_rating |-> game.white.rating,
   black_rating |-> game.black.rating,
   date |-> game.date,
   speed |-> game.speed,
   site |-> game.site,
   fen |-> game.fen,
   outcome |-> IF IsSome(game.outcome)
               THEN Some(outcome_code(Unwrap(game.outcome))) ELSE None,
   moves |-> moves_join(game.moves)]

\* which increment_game_count calls of a send fail: per record of the batch,
\* << the one for white, the one for black >>
NoFaults(n) == { [i \in 1..n |-> << FALSE, FALSE >>] }
AnyFaults(n) == [1..n -> BOOLEAN \X BOOLEAN]
Plans(may_fail, n) == IF may_fail THEN AnyFaults(n) ELSE NoFaults(n)

\* a send that returns the error of a failed increment_game_count
after_increment_checked(fw, fb) == ~fw /\ ~fb

\* what send makes of the results of its two increment_game_count calls: they are
\* not looked at, the loop goes on
after_increment(fw, fb) == TRUE

\* a side without name given a Player row of its own, with the empty name
side_player_created(ps, name) ==
  create_player(ps, IF IsSome(name) THEN Unwrap(name) ELSE << >>)

\* the player send resolves a side to: the row of its name, created if need be, or
\* Player::default() for a side without name, which touches no table
side_player(ps, name) ==
  IF IsSome(name) THEN create_player(ps, Unwrap(name))
  ELSE [players |-> ps, player |-> Player_default]

\* one iteration of the loop of send over one record, where the increment for white
\* fails if fw and the one for black if fb (a failed UPDATE changes nothing)
send_one_with(ps, gs, game, fw, fb) ==
  LET w == side_player(ps, game.white.name)
      b == side_player(w.players, game.black.name)
      cg == create_game(gs, NewGame(game, w.player, b.player))
      p1 == IF fw THEN b.players ELSE increment_game_count(b.players, w.player.id)
      p2 == IF fb THEN p1 ELSE increment_game_count(p1, b.player.id)
  IN IF cg.ok
     THEN [ok |-> after_increment(fw, fb), players |-> p2, games |-> cg.games]
     ELSE [ok |-> FALSE, players |-> b.players, games |-> gs]

\* one iteration of the loop of send over one record
send_one(ps, gs, game) == send_one_with(ps, gs, game, FALSE, FALSE)

\* a batch iterated from its last record
RECURSIVE send_order_reversed(_)
send_order_reversed(b) ==
  IF b = << >> THEN << >> ELSE Append(send_order_reversed(Tail(b)), Head(b))

\* the records of a batch in the order send iterates them
send_order(b) == b

\* send: the loop over the batch, stopping at the first error (operator ?)
RECURSIVE send_loop_with(_, _, _, _)
send_loop_with(ps, gs, b, faults) ==
  IF b = << >> THEN [ok |-> TRUE, players |-> ps, games |-> gs]
  ELSE LET r == send_one_with(ps, gs, Head(b), Head(faults)[1], Head(faults)[2])
       IN IF r.ok THEN send_loop_with(r.players, r.games, Tail(b), Tail(faults)) ELSE r

send_with(ps, gs, b, faults) == send_loop_with(ps, gs, send_order(b), faults)

\* the same where every increment_game_count goes through
RECURSIVE send_loop(_, _, _)
send_loop(ps, gs, b) ==
  IF b = << >> THEN [ok |-> TRUE, players |-> ps, games |-> gs]
  ELSE LET r == send_one(ps, gs, Head(b))
       IN IF r.ok THEN send_loop(r.players, r.games, Tail(b)) ELSE r

send(ps, gs, b) == send_loop(ps, gs, send_order(b))

\* ------------------------------------------------------------------ Speed
UltraBullet == 0
Bullet == 1
Blitz == 2
Rapid == 3
Classical == 4
Correspondence == 5

\* A u64 is four 16-bit limbs, least significant first
Limb == 65536
U64Zero == << 0, 0, 0, 0 >>

\* x * m + a on u64 for small m and a: the wrapped value and whether it overflowed
U64MulAdd(x, m, a) ==
  LET t1 == x[1] * m + a
      t2 == x[2] * m + t1 \div Limb
      t3 == x[3] * m + t2 \div Limb
      t4 == x[4] * m + t3 \div Limb
  IN [val |-> << t1 % Limb, t2 % Limb, t3 % Limb, t4 % Limb >>,
      overflow |-> t4 \div Limb > 0]

\* x + y on u64: the wrapped value and whether it overflowed
U64Add(x, y) ==
  LET t1 == x[1] + y[1]
      t2 == x[2] + y[2] + t1 \div Limb
      t3 == x[3] + y[3] + t2 \div Limb
      t4 == x[4] + y[4] + t3 \div Limb
  IN [val |-> << t1 % Limb, t2 % Limb, t3 % Limb, t4 % Limb >>,
      overflow |-> t4 \div Limb > 0]

\* x < n for a u64 x and a constant n below 2^16
U64Below(x, n) == x[2] = 0 /\ x[3] = 0 /\ x[4] = 0 /\ x[1] < n

\* seconds + 40 * increment, wrapped, and whether either operation overflowed
total_of(seconds, increment) ==
  LET m == U64MulAdd(increment, 40, 0)
      t == U64Add(seconds, m.val)
  IN [val |-> t.val, overflow |-> m.overflow \/ t.overflow]

\* Speed::from_seconds_and_increment: the bucket of a total
speed_of_total(total) ==
  IF U64Below(total, 30) THEN UltraBullet
  ELSE IF U64Below(total, 180) THEN Bullet
  ELSE IF U64Below(total, 480) THEN Blitz
  ELSE IF U64Below(total, 1500) THEN Rapid
  ELSE IF U64Below(total, 21600) THEN Classical
  ELSE Correspondence

\* Speed::from_seconds_and_increment where the arithmetic wraps (release build)
from_seconds_and_increment(seconds, increment) ==
  speed_of_total(total_of(seconds, increment).val)

\* btoi::btou::<u64>: at least one digit, digits only, no overflow
RECURSIVE btou64_from(_, _, _)
btou64_from(s, i, acc) ==
  IF i > Len(s) THEN Some(acc)
  ELSE IF ~IsDigit(s[i]) THEN None
  ELSE LET n == U64MulAdd(acc, 10, DigitVal(s[i]))
       IN IF n.overflow THEN None ELSE btou64_from(s, i + 1, n.val)

btou(s) == IF Len(s) = 0 THEN None ELSE btou64_from(s, 1, U64Zero)

\* position of the first '+' of s, 0 if there is none
FirstPlus(s) ==
  IF \E i \in 1..Len(s) : s[i] = "+"
  THEN CHOOSE i \in 1..Len(s) : s[i] = "+" /\ \A j \in 1..(i - 1) : s[j] # "+"
  ELSE 0

\* Speed::from_bytes: "-" or <seconds>+<increment>; None stands for Err(())
from_bytes(bytes) ==
  IF bytes = << "-" >> THEN Some(Correspondence)
  ELSE LET p == FirstPlus(bytes)
       IN IF p = 0 THEN None
          ELSE LET seconds == btou(SubSeq(bytes, 1, p - 1))
                   increment == btou(SubSeq(bytes, p + 1, Len(bytes)))
               IN IF seconds = None \/ increment = None THEN None
                  ELSE Some(from_seconds_and_increment(Unwrap(seconds), Unwrap(increment)))

\* what a call of the classifier comes to: Ok(speed), Err(()), or a panic
SpeedOk(speed) == [kind |-> "Ok", speed |-> speed]
SpeedErr == [kind |-> "Err", speed |-> 0]
SpeedPanic == [kind |-> "panic", speed |-> 0]

\* Speed::from_seconds_and_increment in either build: with overflow checks (debug)
\* an overflowing multiplication or addition panics, without them (release) it wraps
from_seconds_and_increment_build(seconds, increment, overflow_checks) ==
  IF overflow_checks /\ total_of(seconds, increment).overflow THEN SpeedPanic
  ELSE SpeedOk(from_seconds_and_increment(seconds, increment))

\* Speed::from_bytes in either build
from_bytes_build(bytes, overflow_checks) ==
  IF bytes = << "-" >> THEN SpeedOk(Correspondence)
  ELSE LET p == FirstPlus(bytes)
       IN IF p = 0 THEN SpeedErr
          ELSE LET seconds == btou(SubSeq(bytes, 1, p - 1))
                   increment == btou(SubSeq(bytes, p + 1, Len(bytes)))
               IN IF seconds = None \/ increment = None THEN SpeedErr
                  ELSE from_seconds_and_increment_build(Unwrap(seconds), Unwrap(increment),
                                                        overflow_checks)

\* ------------------------------------------------------------------ Importer
\* a byte that is no valid UTF-8
INVALID_BYTE == "xFF"
utf8_ok(s) == \A i \in 1..Len(s) : s[i] # INVALID_BYTE

Panic == [panic |-> TRUE, current |-> TempGame_default, skip |-> FALSE]
Went(cur, sk) == [panic |-> FALSE, current |-> cur, skip |-> sk]

\* a FEN header that stores every value as it is
header_fen_verbatim(value) == Some(value)

\* Visitor::header, key FEN: what current.fen is set to
header_fen(value) == IF value = STARTFEN THEN None ELSE Some(value)

\* a TimeControl header that marks its game for skip where the clock is unparseable
header_speed_skip(cur, sk, value) ==
  IF from_bytes(value) = None THEN Went(cur, TRUE)
  ELSE Went([cur EXCEPT !.speed = from_bytes(value)], sk)

\* Visitor::header, key TimeControl: expect() on the result of Speed::from_bytes
header_speed(cur, sk, value) ==
  IF from_bytes(value) = None THEN Panic
  ELSE Went([cur EXCEPT !.speed = from_bytes(value)], sk)

\* Visitor::header: the if/else chain over the key; panic is an expect() that fails
header_fn(cur, sk, key, value) ==
  IF key = "White" THEN
    IF utf8_ok(value) THEN Went([cur EXCEPT !.white.name = Some(value)], sk) ELSE Panic
  ELSE IF key = "Black" THEN
    IF utf8_ok(value) THEN Went([cur EXCEPT !.black.name = Some(value)], sk) ELSE Panic
  ELSE IF key = "WhiteElo" THEN
    IF value # QMARK
    THEN IF btoi(value) = None THEN Panic
         ELSE Went([cur EXCEPT !.white.rating = btoi(value)], sk)
    ELSE Went(cur, sk)
  ELSE IF key = "BlackElo" THEN
    IF value # QMARK
    THEN IF btoi(value) = None THEN Panic
         ELSE Went([cur EXCEPT !.black.rating = btoi(value)], sk)
    ELSE Went(cur, sk)
  ELSE IF key = "TimeControl" THEN
    header_speed(cur, sk, value)
  ELSE IF key = "Date" \/ key = "UTCDate" THEN
    IF utf8_ok(value) THEN Went([cur EXCEPT !.date = Some(value)], sk) ELSE Panic
  ELSE IF key = "WhiteTitle" \/ key = "BlackTitle" THEN
    IF value = BOT THEN Went(cur, TRUE) ELSE Went(cur, sk)
  ELSE IF key = "Site" THEN
    IF utf8_ok(value) THEN Went([cur EXCEPT !.site = Some(value)], sk) ELSE Panic
  ELSE IF key = "Result" THEN
    IF Outcome_from_ascii(value) # None
    THEN Went([cur EXCEPT !.outcome = Outcome_from_ascii(value)], sk)
    ELSE Went(cur, TRUE)
  ELSE IF key = "FEN" THEN
    IF value = STARTFEN \/ utf8_ok(value)
    THEN Went([cur EXCEPT !.fen = header_fen(value)], sk) ELSE Panic
  ELSE Went(cur, sk)

\* Visitor::end_headers: the skip decision
end_headers_skip(cur, sk) ==
  sk \/ cur.white.rating = None \/ cur.black.rating = None

\* begin_game that leaves the skip flag of the game before
begin_game_skip_kept(sk) == sk

\* Visitor::begin_game: the skip flag of the new game
begin_game_skip(sk) == FALSE

\* Visitor::end_game, first statement: the buffer after the push
end_game_push(b, cur, sk) == IF ~sk THEN Append(b, cur) ELSE b

\* a buffer flushed only once it holds more than the batch size
end_game_full_over(b, size) == Len(b) > size

\* Visitor::end_game, second statement: whether the buffer is flushed
end_game_full(b, size) == Len(b) >= size

\* ------------------------------------------------------------------ state
VARIABLES
  players,     \* the players table: rows [id, name, game_count] in insertion order
  games,       \* the games table: rows in insertion order
  batch_size,  \* Importer.batch_size
  current,     \* Importer.current
  skip,        \* Importer.skip
  batch,       \* Importer.batch
  pc,          \* where read_all stands: "idle", "headers", "moves", "done", "panic"
  ret,         \* what convert_pgn returned: "none", "Ok", "Err", "panic"
  run,         \* how many times convert_pgn was started on this database file
  own,         \* history: what the headers of the game being read said
  hist,        \* history: per game ended in this run, whether end_game appended it
  accepted,    \* history: the records end_game appended in this run, in order
  sends,       \* history: the result of every call of send in this run, in order
  tape,        \* the archive, when it is fixed beforehand: its games in order
  pos,         \* the position of read_all in the headers or moves of its game
  first,       \* history: the tables as the first run left them
  resp         \* what the last query command was asked and what it returned

importer == << batch_size, current, skip, batch >>
history == << own, hist, accepted, sends >>
archive == << tape, pos, first, resp >>
vars == << players, games, batch_size, current, skip, batch, pc, ret, run,
           own, hist, accepted, sends, tape, pos, first, resp >>

\* no query command was called
NoResp == [cmd |-> "none"]

\* the names and header values the archives are written with
NameA == << "A" >>
NameB == << "a", "b" >>
Elo15 == << "1", "5" >>
Elo20 == << "2", "0" >>
Date1 == << "d", "1" >>
Date2 == << "d", "2" >>
WhiteWon == << "1", "-", "0" >>
BlackWon == << "0", "-", "1" >>
Drawn == << "1", "/", "2", "-", "1", "/", "2" >>
Unfinished == << "*" >>
GM == << "G", "M" >>
Blitz180 == << "1", "8", "0", "+", "0" >>
Bullet60 == << "6", "0", "+", "0" >>
E4 == << "e", "4" >>

\* what a header says about its game, read off the header alone
Facts(key, value) ==
  (IF key = "WhiteElo" /\ value # QMARK THEN {"WhiteElo"} ELSE {})
  \cup (IF key = "BlackElo" /\ value # QMARK THEN {"BlackElo"} ELSE {})
  \cup (IF key \in {"WhiteTitle", "BlackTitle"} /\ value = BOT THEN {"BOT"} ELSE {})
  \cup (IF key = "Result" /\ value \notin {WhiteWon, BlackWon, Drawn}
        THEN {"BadResult"} ELSE {})

\* ------------------------------------------------------------------ actions
\* Visitor::begin_game
begin_game ==
  /\ pc = "idle"
  /\ skip' = begin_game_skip(skip)
  /\ current' = TempGame_default
  /\ pc' = "headers"
  /\ own' = {}
  /\ UNCHANGED << players, games, batch_size, batch, ret, run, hist, accepted, sends >>

\* Visitor::header; a failed expect() ends the run
header(key, value) ==
  /\ pc = "headers"
  /\ LET r == header_fn(current, skip, key, value)
     IN IF r.panic
        THEN /\ pc' = "panic"
             /\ ret' = "panic"
             /\ UNCHANGED << current, skip >>
        ELSE /\ current' = r.current
             /\ skip' = r.skip
             /\ UNCHANGED << pc, ret >>
  /\ own' = own \cup Facts(key, value)
  /\ UNCHANGED << players, games, batch_size, batch, run, hist, accepted, sends >>

\* Visitor::end_headers
end_headers ==
  /\ pc = "headers"
  /\ skip' = end_headers_skip(current, skip)
  /\ pc' = "moves"
  /\ UNCHANGED << players, games, batch_size, current, batch, ret, run, history >>

\* Visitor::san; read_all skips the movetext of a game whose end_headers said Skip(true)
san(m) ==
  /\ pc = "moves"
  /\ ~skip
  /\ current' = [current EXCEPT !.moves = Append(@, m)]
  /\ UNCHANGED << players, games, batch_size, skip, batch, pc, ret, run, history >>

\* Visitor::end_game: push unless skipped, then send a full buffer and drop its result;
\* may_fail says whether the increment_game_count calls of that send may fail
end_game_with(may_fail) ==
  /\ pc = "moves"
  /\ LET b1 == end_game_push(batch, current, skip)
         pushed == Len(b1) > Len(batch)
     IN /\ current' = IF ~skip THEN TempGame_default ELSE current
        /\ hist' = Append(hist, pushed)
        /\ accepted' = IF pushed THEN Append(accepted, b1[Len(b1)]) ELSE accepted
        /\ IF end_game_full(b1, batch_size)
           THEN \E faults \in Plans(may_fail, Len(b1)) :
                  LET r == send_with(players, games, b1, faults)
                  IN /\ players' = r.players
                     /\ games' = r.games
                     /\ batch' = << >>
                     /\ sends' = Append(sends, r.ok)
           ELSE /\ batch' = b1
                /\ UNCHANGED << players, games, sends >>
  /\ pc' = "idle"
  /\ UNCHANGED << batch_size, skip, ret, run, own >>

end_game == end_game_with(FALSE)

\* convert_pgn after read_all returned: the final send, whose error is returned
convert_pgn_finish_with(may_fail) ==
  /\ pc = "idle"
  /\ \E faults \in Plans(may_fail, Len(batch)) :
       LET r == send_with(players, games, batch, faults)
       IN /\ players' = r.players
          /\ games' = r.games
          /\ batch' = << >>
          /\ sends' = Append(sends, r.ok)
          /\ ret' = IF r.ok THEN "Ok" ELSE "Err"
  /\ pc' = "done"
  /\ UNCHANGED << batch_size, current, skip, run, own, hist, accepted >>

convert_pgn_finish == convert_pgn_finish_with(FALSE)

\* convert_pgn called once more for the same archive: establish opens the file that
\* is there, CREATE TABLE IF NOT EXISTS keeps its tables, Importer::new starts afresh
convert_pgn_again ==
  /\ pc \in {"done", "panic"}
  /\ run < MaxRuns
  /\ run' = run + 1
  /\ batch_size' = batch_size
  /\ current' = TempGame_default
  /\ skip' = FALSE
  /\ batch' = << >>
  /\ pc' = "idle"
  /\ ret' = "none"
  /\ own' = {}
  /\ hist' = << >>
  /\ accepted' = << >>
  /\ sends' = << >>
  /\ pos' = 1
  /\ first' = IF run = 1 THEN [players |-> players, games |-> games] ELSE first
  /\ UNCHANGED << players, games, tape, resp >>

\* ------------------------------------------------------------------ archives
\* a game of an archive: its headers in order, then its moves
Game(hs, ms) == [headers |-> hs, moves |-> ms]

Rated == << << "WhiteElo", Elo15 >>, << "BlackElo", Elo15 >> >>

\* the games the archives of Spec are made of
ArchiveGames ==
  { \* A beats ab
    Game(<< << "White", NameA >>, << "Black", NameB >> >> \o Rated
         \o << << "Date", Date1 >>, << "Result", WhiteWon >> >>, << E4 >>),
    \* ab loses to A
    Game(<< << "White", NameB >>, << "Black", NameA >> >> \o Rated
         \o << << "Result", BlackWon >>, << "Date", Date1 >> >>, << >>),
    \* A plays A
    Game(<< << "White", NameA >>, << "Black", NameA >> >> \o Rated
         \o << << "Date", Date1 >>, << "Result", Drawn >> >>, << >>),
    \* no White header
    Game(<< << "Black", NameB >> >> \o Rated
         \o << << "Date", Date1 >>, << "Result", WhiteWon >> >>, << >>),
    \* no Black header
    Game(<< << "White", NameA >> >> \o Rated
         \o << << "Date", Date1 >>, << "Result", Drawn >> >>, << >>),
    \* no Date header
    Game(<< << "White", NameA >>, << "Black", NameA >> >> \o Rated
         \o << << "Result", Drawn >> >>, << >>),
    \* no Result header
    Game(<< << "White", NameA >>, << "Black", NameB >> >> \o Rated
         \o << << "Date", Date1 >> >>, << >>),
    \* a bot
    Game(<< << "White", NameB >>, << "WhiteTitle", BOT >>, << "Black", NameA >> >> \o Rated
         \o << << "Date", Date1 >>, << "Result", WhiteWon >> >>, << E4 >>),
    \* no rating for White
    Game(<< << "White", NameB >>, << "Black", NameA >>,
            << "WhiteElo", QMARK >>, << "BlackElo", Elo15 >>,
            << "Date", Date1 >>, << "Result", BlackWon >> >>, << >>),
    \* an unfinished game
    Game(<< << "White", NameA >>, << "Black", NameB >> >> \o Rated
         \o << << "Date", Date1 >>, << "Result", Unfinished >> >>, << >>) }

RECURSIVE SeqsUpTo(_, _)
SeqsUpTo(S, n) ==
  IF n = 0 THEN { << >> }
  ELSE LET shorter == SeqsUpTo(S, n - 1)
       IN shorter \cup { Append(q, x) : q \in { t \in shorter : Len(t) = n - 1 }, x \in S }

Archives == SeqsUpTo(ArchiveGames, MaxGames)

\* the game read_all is in, when the archive is fixed beforehand
Here == tape[Len(hist) + 1]

\* read_all of pgn_reader over the archive: one signal to the visitor at a time
read_begin_game ==
  /\ Len(hist) < Len(tape)
  /\ begin_game
  /\ pos' = 1
  /\ UNCHANGED << tape, first, resp >>

read_header ==
  /\ pc = "headers"
  /\ pos <= Len(Here.headers)
  /\ header(Here.headers[pos][1], Here.headers[pos][2])
  /\ pos' = pos + 1
  /\ UNCHANGED << tape, first, resp >>

read_end_headers ==
  /\ pc = "headers"
  /\ pos > Len(Here.headers)
  /\ end_headers
  /\ pos' = 1
  /\ UNCHANGED << tape, first, resp >>

read_san ==
  /\ pc = "moves"
  /\ pos <= Len(Here.moves)
  /\ san(Here.moves[pos])
  /\ pos' = pos + 1
  /\ UNCHANGED << tape, first, resp >>

read_end_game ==
  /\ pc = "moves"
  /\ skip \/ pos > Len(Here.moves)
  /\ end_game
  /\ pos' = 1
  /\ UNCHANGED << tape, first, resp >>

read_eof ==
  /\ Len(hist) = Len(tape)
  /\ convert_pgn_finish
  /\ UNCHANGED archive

InitImporter ==
  /\ players = << >>
  /\ games = << >>
  /\ batch_size \in 1..BatchSize
  /\ current = TempGame_default
  /\ skip = FALSE
  /\ batch = << >>
  /\ pc = "idle"
  /\ ret = "none"
  /\ run = 1
  /\ own = {}
  /\ hist = << >>
  /\ accepted = << >>
  /\ sends = << >>
  /\ pos = 1
  /\ first = [players |-> << >>, games |-> << >>]
  /\ resp = NoResp

\* convert_pgn of any archive of Archives into a new database file
Init == InitImporter /\ tape \in Archives

Next ==
  \/ read_begin_game
  \/ read_header
  \/ read_end_headers
  \/ read_san
  \/ read_end_game
  \/ read_eof

Spec == Init /\ [][Next]_vars

\* the same, and convert_pgn called again for the archive once it has returned
NextAgain == Next \/ convert_pgn_again

SpecAgain == Init /\ [][NextAgain]_vars

\* the same start position with Black to move
\* rnbqkbnr/pppppppp/8/8/8/8/PPPPPPPP/RNBQKBNR b KQkq - 0 1
OtherFen ==
  << "r", "n", "b", "q", "k", "b", "n", "r", "/", "p", "p", "p", "p", "p",
     "p", "p", "p", "/", "8", "/", "8", "/", "8", "/", "8", "/", "P", "P",
     "P", "P", "P", "P", "P", "P", "/", "R", "N", "B", "Q", "K", "B", "N",
     "R", " ", "b", " ", "K", "Q", "k", "q", " ", "-", " ", "0", " ", "1" >>

\* games with both date headers and with FEN headers
HeaderGames ==
  { \* Date before UTCDate, another position
    Game(<< << "White", NameA >>, << "Black", NameB >> >> \o Rated
         \o << << "Date", Date1 >>, << "UTCDate", Date2 >>, << "FEN", OtherFen >>,
               << "Result", WhiteWon >> >>, << E4 >>),
    \* UTCDate before Date, the standard position
    Game(<< << "White", NameB >>, << "Black", NameA >> >> \o Rated
         \o << << "UTCDate", Date2 >>, << "Date", Date1 >>, << "FEN", STARTFEN >>,
               << "Result", BlackWon >> >>, << >>),
    \* UTCDate only, no FEN
    Game(<< << "White", NameA >>, << "Black", NameB >> >> \o Rated
         \o << << "UTCDate", Date2 >>, << "Result", Drawn >> >>, << >>),
    \* a bot, another position
    Game(<< << "White", NameB >>, << "WhiteTitle", BOT >>, << "Black", NameA >> >> \o Rated
         \o << << "Date", Date1 >>, << "FEN", OtherFen >>, << "Result", WhiteWon >> >>,
         << >>) }

\* convert_pgn of any archive of those games into a new database file
InitHeaders == InitImporter /\ tape \in SeqsUpTo(HeaderGames, MaxGames)

SpecHeaders == InitHeaders /\ [][Next]_vars

\* games with a TimeControl that is no clock and with a name that is no UTF-8
NoClock == << "1", "8", "0" >>
NoName == << "A", INVALID_BYTE >>

FatalGames ==
  { \* A beats ab
    Game(<< << "White", NameA >>, << "Black", NameB >> >> \o Rated
         \o << << "TimeControl", Blitz180 >>, << "Date", Date1 >>,
               << "Result", WhiteWon >> >>, << E4 >>),
    \* no rating for White
    Game(<< << "White", NameB >>, << "Black", NameA >>,
            << "WhiteElo", QMARK >>, << "BlackElo", Elo15 >>,
            << "Date", Date1 >>, << "Result", BlackWon >> >>, << >>),
    \* a TimeControl without increment
    Game(<< << "White", NameA >>, << "Black", NameB >> >> \o Rated
         \o << << "TimeControl", NoClock >>, << "Date", Date1 >>,
               << "Result", WhiteWon >> >>, << >>),
    \* the same in the game of a bot
    Game(<< << "White", NameA >>, << "WhiteTitle", BOT >>, << "Black", NameB >>,
            << "TimeControl", NoClock >> >> \o Rated
         \o << << "Date", Date1 >>, << "Result", WhiteWon >> >>, << >>),
    \* a Black name that is no UTF-8
    Game(<< << "White", NameA >>, << "Black", NoName >> >> \o Rated
         \o << << "Date", Date1 >>, << "Result", Drawn >> >>, << >>) }

\* convert_pgn of any archive of those games into a new database file
InitFatal == InitImporter /\ tape \in SeqsUpTo(FatalGames, MaxGames)

SpecFatal == InitFatal /\ [][Next]_vars

\* ------------------------------------------------------------------ failing increments
\* games that are all appended, one of them refused by the games table
FaultGames ==
  { \* A beats ab
    Game(<< << "White", NameA >>, << "Black", NameB >> >> \o Rated
         \o << << "Date", Date1 >>, << "Result", WhiteWon >> >>, << E4 >>),
    \* A plays A
    Game(<< << "White", NameA >>, << "Black", NameA >> >> \o Rated
         \o << << "Date", Date1 >>, << "Result", Drawn >> >>, << >>),
    \* no White header
    Game(<< << "Black", NameB >> >> \o Rated
         \o << << "Date", Date1 >>, << "Result", WhiteWon >> >>, << >>),
    \* no Date header
    Game(<< << "White", NameB >>, << "Black", NameA >> >> \o Rated
         \o << << "Result", BlackWon >> >>, << >>) }

\* read_all where any increment_game_count of a send may fail
read_end_game_faulty ==
  /\ pc = "moves"
  /\ skip \/ pos > Len(Here.moves)
  /\ end_game_with(TRUE)
  /\ pos' = 1
  /\ UNCHANGED << tape, first, resp >>

read_eof_faulty ==
  /\ Len(hist) = Len(tape)
  /\ convert_pgn_finish_with(TRUE)
  /\ UNCHANGED archive

InitFaulty == InitImporter /\ tape \in SeqsUpTo(FaultGames, MaxGames)

NextFaulty ==
  \/ read_begin_game
  \/ read_header
  \/ read_end_headers
  \/ read_san
  \/ read_end_game_faulty
  \/ read_eof_faulty

SpecFaulty == InitFaulty /\ [][NextFaulty]_vars

\* ------------------------------------------------------------------ any headers
\* read_all over an archive that is not fixed beforehand: any signal the PGN
\* grammar allows next, with headers drawn from H
free_begin_game == Len(hist) < MaxGames /\ begin_game /\ UNCHANGED archive
free_header(H) == \E h \in H : header(h[1], h[2]) /\ UNCHANGED archive
free_end_headers == end_headers /\ UNCHANGED archive
free_san == Len(current.moves) < MaxMoves /\ san(E4) /\ UNCHANGED archive
free_end_game == end_game /\ UNCHANGED archive
free_eof == convert_pgn_finish /\ UNCHANGED archive

InitFree == InitImporter /\ tape = << >>

\* the headers that decide whether a game is skipped
SkipHeaders ==
  { << "White", NameA >>,
    << "WhiteElo", Elo15 >>, << "WhiteElo", QMARK >>,
    << "BlackElo", Elo15 >>, << "BlackElo", QMARK >>,
    << "WhiteTitle", BOT >>, << "BlackTitle", GM >>,
    << "Result", WhiteWon >>, << "Result", Unfinished >>,
    << "Date", Date1 >> }

NextSkip ==
  \/ free_begin_game
  \/ free_header(SkipHeaders)
  \/ free_end_headers
  \/ free_san
  \/ free_end_game
  \/ free_eof

SpecSkip == InitFree /\ [][NextSkip]_vars

\* ------------------------------------------------------------------ queries
\* the characters of the model's texts in the order of their bytes
Ascii ==
  << " ", "%", "*", "+", "-", "/", "0", "1", "2", "3", "4", "5", "6", "7", "8", "9",
     "?", "A", "B", "G", "M", "O", "T", "_", "a", "b", "d", "e", "r", "s", "t" >>
CharRank(c) == CHOOSE i \in DOMAIN Ascii : Ascii[i] = c

\* a <= b for two TEXT values (memcmp, the shorter first)
RECURSIVE TextLeq(_, _)
TextLeq(a, b) ==
  IF a = << >> THEN TRUE
  ELSE IF b = << >> THEN FALSE
  ELSE IF CharRank(Head(a)) < CharRank(Head(b)) THEN TRUE
  ELSE IF CharRank(Head(a)) > CharRank(Head(b)) THEN FALSE
  ELSE TextLeq(Tail(a), Tail(b))

\* a >= b for two nullable INTEGER values; NULL is below every number
OptIntGeq(a, b) == b = None \/ (a # None /\ Unwrap(a) >= Unwrap(b))

\* the row of the players table with that id, None if there is none
PlayerById(ps, id) ==
  IF \E i \in DOMAIN ps : ps[i].id = id
  THEN Some(ps[CHOOSE i \in DOMAIN ps : ps[i].id = id])
  ELSE None

\* games INNER JOIN players AS white INNER JOIN players AS black: (Game, Player, Player)
RECURSIVE inner_join(_, _)
inner_join(ps, gs) ==
  IF gs = << >> THEN << >>
  ELSE LET g == Head(gs)
           w == PlayerById(ps, g.white)
           b == PlayerById(ps, g.black)
       IN (IF w # None /\ b # None THEN << << g, Unwrap(w), Unwrap(b) >> >> ELSE << >>)
          \o inner_join(ps, Tail(gs))

\* filters of sql_query that also ask for player2 as the black player
sql_query_filter_player2(q, row) ==
  /\ IsSome(q.player1) => row[2].name = Unwrap(q.player1)
  /\ IsSome(q.player2) => row[3].name = Unwrap(q.player2)
  /\ IsSome(q.speed) => row[1].speed = q.speed
  /\ IsSome(q.outcome) => row[1].outcome = Some(outcome_code(Unwrap(q.outcome)))

\* the filters get_games puts on sql_query
sql_query_filter(q, row) ==
  /\ IsSome(q.player1) => row[2].name = Unwrap(q.player1)
  /\ IsSome(q.speed) => row[1].speed = q.speed
  /\ IsSome(q.outcome) => row[1].outcome = Some(outcome_code(Unwrap(q.outcome)))

\* filters of count_query that leave out the speed
count_query_filter_no_speed(q, row) ==
  /\ IsSome(q.player1) => row[2].name = Unwrap(q.player1)
  /\ IsSome(q.outcome) => row[1].outcome = Some(outcome_code(Unwrap(q.outcome)))

\* the filters get_games puts on count_query
count_query_filter(q, row) ==
  /\ IsSome(q.player1) => row[2].name = Unwrap(q.player1)
  /\ IsSome(q.speed) => row[1].speed = q.speed
  /\ IsSome(q.outcome) => row[1].outcome = Some(outcome_code(Unwrap(q.outcome)))

\* MAX(games.white_rating, games.black_rating): NULL if either is
max_rating(g) ==
  IF g.white_rating = None \/ g.black_rating = None THEN None
  ELSE IF Unwrap(g.white_rating) >= Unwrap(g.black_rating)
       THEN g.white_rating ELSE g.black_rating

\* whether ORDER BY <sort> DESC may put row a before row b
order_desc(sort, a, b) ==
  IF sort = Some("Date") THEN TextLeq(Unwrap(b[1].date), Unwrap(a[1].date))
  ELSE IF sort = Some("Rating") THEN OptIntGeq(max_rating(a[1]), max_rating(b[1]))
  ELSE IF sort = Some("Speed") THEN OptIntGeq(a[1].speed, b[1].speed)
  ELSE IF sort = Some("Outcome") THEN OptIntGeq(a[1].outcome, b[1].outcome)
  ELSE TRUE

Bijections(n) ==
  { f \in [1..n -> 1..n] : \A i, j \in 1..n : f[i] = f[j] => i = j }

\* the orders in which the rows may come back: table order without ORDER BY, else
\* any order that descends in the sort key (rows of equal key in either order)
ordered(rows, sort) ==
  IF sort = None THEN { rows }
  ELSE { [i \in 1..Len(rows) |-> rows[f[i]]] :
           f \in { g \in Bijections(Len(rows)) :
                     \A i \in 1..(Len(rows) - 1) :
                        order_desc(sort, rows[g[i]], rows[g[i + 1]]) } }

\* LIMIT and OFFSET of SQLite: a negative limit is no limit, a negative offset is 0
limit_offset(rows, limit, offset) ==
  LET off == IF offset = None \/ Unwrap(offset) < 0 THEN 0 ELSE Unwrap(offset)
      rest == SubSeq(rows, off + 1, Len(rows))
  IN IF limit = None \/ Unwrap(limit) < 0 THEN rest
     ELSE SubSeq(rest, 1, IF Unwrap(limit) < Len(rest) THEN Unwrap(limit) ELSE Len(rest))

\* get_games: the count, if asked for
get_games_count(ps, gs, q) ==
  IF ~q.skip_count
  THEN Some(Len(SelectSeq(inner_join(ps, gs), LAMBDA r : count_query_filter(q, r))))
  ELSE None

\* get_games: the pages sql_query.load may return
get_games_data(ps, gs, q) ==
  { limit_offset(o, q.limit, q.offset) :
      o \in ordered(SelectSeq(inner_join(ps, gs), LAMBDA r : sql_query_filter(q, r)),
                    q.sort) }

\* get_games
get_games(q) ==
  /\ \E d \in get_games_data(players, games, q) :
       resp' = [cmd |-> "get_games", query |-> q, data |-> d,
                count |-> get_games_count(players, games, q)]
  /\ UNCHANGED << players, games, importer, pc, ret, run, history, tape, pos, first >>

\* the upper case of an ASCII letter of the model's texts, else the character
Upper(c) ==
  CASE c = "a" -> "A" [] c = "b" -> "B" [] c = "d" -> "D" [] c = "e" -> "E"
    [] c = "r" -> "R" [] c = "s" -> "S" [] c = "t" -> "T" [] OTHER -> c

\* text LIKE pattern of SQLite: % is any run of characters, _ any one character,
\* ASCII letters match in either case
RECURSIVE like(_, _)
like(text, pattern) ==
  IF pattern = << >> THEN text = << >>
  ELSE IF Head(pattern) = "%"
       THEN \E k \in 0..Len(text) : like(SubSeq(text, k + 1, Len(text)), Tail(pattern))
  ELSE IF text = << >> THEN FALSE
  ELSE /\ Head(pattern) = "_" \/ Upper(Head(pattern)) = Upper(Head(text))
       /\ like(Tail(text), Tail(pattern))

\* the filter get_players puts on sql_query: name LIKE '%<name>%'
players_sql_filter(q, row) ==
  IsSome(q.name) => like(row.name, << "%" >> \o Unwrap(q.name) \o << "%" >>)

\* the filter get_players puts on count_query
players_count_filter(q, row) ==
  IsSome(q.name) => like(row.name, << "%" >> \o Unwrap(q.name) \o << "%" >>)

\* get_players
get_players(q) ==
  /\ resp' = [cmd |-> "get_players", query |-> q,
              data |-> limit_offset(
                         SelectSeq(players, LAMBDA r : players_sql_filter(q, r)),
                         q.limit, q.offset),
              count |-> IF ~q.skip_count
                        THEN Some(Len(SelectSeq(players,
                                                LAMBDA r : players_count_filter(q, r))))
                        ELSE None]
  /\ UNCHANGED << players, games, importer, pc, ret, run, history, tape, pos, first >>

\* get_players_game_info: what one loaded game adds to the tally
tally(info, game) ==
  IF game.outcome = Some(1) THEN [info EXCEPT !.won = @ + 1]
  ELSE IF game.outcome = Some(2) THEN [info EXCEPT !.lost = @ + 1]
  ELSE IF game.outcome = Some(3) THEN [info EXCEPT !.draw = @ + 1]
  ELSE info

RECURSIVE tally_all(_, _)
tally_all(info, gs) ==
  IF gs = << >> THEN info ELSE tally_all(tally(info, Head(gs)), Tail(gs))

\* get_players_game_info
get_players_game_info(id) ==
  /\ resp' = [cmd |-> "get_players_game_info", id |-> id,
              info |-> tally_all([won |-> 0, lost |-> 0, draw |-> 0],
                                 SelectSeq(games,
                                           LAMBDA g : g.white = id \/ g.black = id))]
  /\ UNCHANGED << players, games, importer, pc, ret, run, history, tape, pos, first >>

\* the games the stores of the query commands are ingested from

QueryGames ==
  { Game(<< << "White", NameA >>, << "Black", NameB >>,
            << "WhiteElo", Elo15 >>, << "BlackElo", Elo20 >>,
            << "TimeControl", Blitz180 >>,
            << "Date", Date1 >>, << "Result", WhiteWon >> >>, << E4 >>),
    Game(<< << "White", NameB >>, << "Black", NameA >>,
            << "WhiteElo", Elo20 >>, << "BlackElo", Elo15 >>,
            << "TimeControl", Bullet60 >>,
            << "Date", Date2 >>, << "Result", BlackWon >> >>, << >>),
    Game(<< << "White", NameA >>, << "Black", NameA >>,
            << "WhiteElo", Elo15 >>, << "BlackElo", Elo15 >>,
            << "Date", Date1 >>, << "Result", Drawn >> >>, << >>),
    Game(<< << "Black", NameB >>,
            << "WhiteElo", Elo20 >>, << "BlackElo", Elo20 >>,
            << "TimeControl", Blitz180 >>,
            << "Date", Date2 >>, << "Result", WhiteWon >> >>, << >>) }

\* the record the visitor builds from the headers and moves of a game
RECURSIVE headers_fold(_, _)
headers_fold(cur, hs) ==
  IF hs = << >> THEN cur
  ELSE headers_fold(header_fn(cur, FALSE, Head(hs)[1], Head(hs)[2]).current, Tail(hs))

record_of(g) == [headers_fold(TempGame_default, g.headers) EXCEPT !.moves = g.moves]

\* the tables convert_pgn leaves for an archive of games none of which is skipped
\* or refused by the tables
store_of(a) == send(<< >>, << >>, [i \in DOMAIN a |-> record_of(a[i])])

GameQueries ==
  [ skip_count : BOOLEAN,
    player1 : { None, Some(NameA), Some(NameB) },
    player2 : { None },
    range1 : { None },
    range2 : { None },
    sides : { None },
    speed : { None, Some(Bullet), Some(Blitz) },
    outcome : { None, Some(WhiteWins), Some(Draw) },
    limit : { None } \cup { Some(n) : n \in 0..MaxLimit },
    offset : { None } \cup { Some(n) : n \in 0..MaxOffset },
    sort : { None, Some("Date"), Some("Rating"), Some("Speed"), Some("Outcome") } ]

PlayerQueries ==
  [ skip_count : BOOLEAN,
    name : { None, Some(<< "a" >>), Some(<< "B" >>), Some(<< "_", "b" >>), Some(<< "x" >>) },
    limit : { None } \cup { Some(n) : n \in 0..MaxLimit },
    offset : { None } \cup { Some(n) : n \in 0..MaxOffset } ]

\* a database file convert_pgn has written, and no command called on it yet
InitQuery ==
  /\ \E a \in SeqsUpTo(QueryGames, MaxRows) :
       /\ tape = a
       /\ players = store_of(a).players
       /\ games = store_of(a).games
       /\ hist = [i \in DOMAIN a |-> TRUE]
       /\ accepted = [i \in DOMAIN a |-> record_of(a[i])]
  /\ batch_size = BatchSize
  /\ current = TempGame_default
  /\ skip = FALSE
  /\ batch = << >>
  /\ pc = "done"
  /\ ret = "Ok"
  /\ run = 1
  /\ own = {}
  /\ sends = << TRUE >>
  /\ pos = 1
  /\ first = [players |-> << >>, games |-> << >>]
  /\ resp = NoResp

\* one command called on the file, with any request
call_get_games == resp = NoResp /\ \E q \in GameQueries : get_games(q)
call_get_players == resp = NoResp /\ \E q \in PlayerQueries : get_players(q)
call_get_players_game_info ==
  resp = NoResp /\ \E id \in 0..(MaxRows + 1) : get_players_game_info(id)

NextQuery ==
  \/ call_get_games
  \/ call_get_players
  \/ call_get_players_game_info

SpecQuery == InitQuery /\ [][NextQuery]_vars

\* ------------------------------------------------------------------ unused request fields
\* the values of the fields of GameQuery that get_games never reads
Player2Values == { None, Some(NameB) }
Range1Values == { None, Some(<< 16, 20 >>) }
Range2Values == { None, Some(<< 0, 10 >>) }
SidesValues == { None, Some("BlackWhite"), Some("Any") }

\* requests with those fields set
FilterQueries ==
  [ skip_count : BOOLEAN,
    player1 : { None, Some(NameA) },
    player2 : Player2Values,
    range1 : Range1Values,
    range2 : Range2Values,
    sides : SidesValues,
    speed : { None },
    outcome : { None },
    limit : { None, Some(1) },
    offset : { None },
    sort : { None, Some("Rating") } ]

call_get_games_filters == resp = NoResp /\ \E q \in FilterQueries : get_games(q)

NextFilters == call_get_games_filters

SpecFilters == InitQuery /\ [][NextFilters]_vars

\* ------------------------------------------------------------------ classifier calls
\* the seconds and the increments of the clocks the classifier is called with
SecondsTexts ==
  { << "0" >>, << "2", "9" >>, << "3", "0" >>, << "6", "0" >>,
    << "1", "7", "9" >>, << "1", "8", "0" >>,
    << "4", "7", "9" >>, << "4", "8", "0" >>,
    << "1", "4", "9", "9" >>, << "1", "5", "0", "0" >>,
    << "2", "1", "5", "9", "9" >>, << "2", "1", "6", "0", "0" >>,
    \* 2^64 - 40 and 2^64 - 1
    << "1", "8", "4", "4", "6", "7", "4", "4", "0", "7",
       "3", "7", "0", "9", "5", "5", "1", "5", "7", "6" >>,
    << "1", "8", "4", "4", "6", "7", "4", "4", "0", "7",
       "3", "7", "0", "9", "5", "5", "1", "6", "1", "5" >> }

IncrementTexts ==
  { << "0" >>, << "1" >>, << "4" >>, << "1", "2" >>, << "3", "7" >>, << "5", "4", "0" >>,
    \* 40 times these are 2^64 - 16 and 2^64 + 24
    << "4", "6", "1", "1", "6", "8", "6", "0", "1",
       "8", "4", "2", "7", "3", "8", "7", "9", "0" >>,
    << "4", "6", "1", "1", "6", "8", "6", "0", "1",
       "8", "4", "2", "7", "3", "8", "7", "9", "1" >> }

\* texts that are no <seconds>+<increment>
MalformedClocks ==
  { << >>, << "1", "8", "0" >>, << "A", "+", "0" >>, << "6", "0", "+", "b" >>,
    << "1", "8", "0", "+" >>, << "+", "5" >>, << "1", "+", "2", "+", "3" >>,
    << "-", "5", "+", "0" >>, << "6", "0", " ", "+", "0" >>,
    \* 2^64 seconds
    << "1", "8", "4", "4", "6", "7", "4", "4", "0", "7",
       "3", "7", "0", "9", "5", "5", "1", "6", "1", "6", "+", "0" >> }

TimeControls ==
  { s \o << "+" >> \o i : s \in SecondsTexts, i \in IncrementTexts }
  \cup MalformedClocks \cup { << "-" >> }

SecondsValues == { Unwrap(btou(t)) : t \in SecondsTexts }
IncrementValues == { Unwrap(btou(t)) : t \in IncrementTexts }

\* Speed::from_bytes called on a TimeControl value
call_from_bytes ==
  /\ resp = NoResp
  /\ \E bytes \in TimeControls, overflow_checks \in BOOLEAN :
       resp' = [cmd |-> "from_bytes", bytes |-> bytes,
                result |-> from_bytes_build(bytes, overflow_checks)]
  /\ UNCHANGED << players, games, importer, pc, ret, run, history, tape, pos, first >>

\* Speed::from_seconds_and_increment called on two clocks by the same build
call_from_seconds_and_increment ==
  /\ resp = NoResp
  /\ \E s1 \in SecondsValues, i1 \in IncrementValues,
        s2 \in SecondsValues, i2 \in IncrementValues, overflow_checks \in BOOLEAN :
       resp' = [cmd |-> "from_seconds_and_increment",
                seconds1 |-> s1, increment1 |-> i1,
                result1 |-> from_seconds_and_increment_build(s1, i1, overflow_checks),
                seconds2 |-> s2, increment2 |-> i2,
                result2 |-> from_seconds_and_increment_build(s2, i2, overflow_checks)]
  /\ UNCHANGED << players, games, importer, pc, ret, run, history, tape, pos, first >>

NextSpeed ==
  \/ call_from_bytes
  \/ call_from_seconds_and_increment

SpecSpeed == InitFree /\ [][NextSpeed]_vars

\* ------------------------------------------------------------------ claims
\* the name stored for a player id, None for an id that is no row
NameOfId(id) ==
  IF \E i \in DOMAIN players : players[i].id = id
  THEN Some(players[CHOOSE i \in DOMAIN players : players[i].id = id].name)
  ELSE None

\* the names the records of a sequence carry
NamesIn(recs) ==
  { Unwrap(recs[i].white.name) : i \in { j \in DOMAIN recs : IsSome(recs[j].white.name) } }
  \cup
  { Unwrap(recs[i].black.name) : i \in { j \in DOMAIN recs : IsSome(recs[j].black.name) } }

PlayerNames == { players[i].name : i \in DOMAIN players }

AllSendsOk == \A i \in DOMAIN sends : sends[i]

\* a game's own headers gave both ratings, no bot title and no undecodable result
Eligible(facts) ==
  /\ "WhiteElo" \in facts
  /\ "BlackElo" \in facts
  /\ "BOT" \notin facts
  /\ "BadResult" \notin facts

\* C1: every end_game appends its game to the buffer exactly when the game's own
\* headers gave both ratings, no BOT title and no undecodable Result; and rows only
\* come from appended games: no more Game rows than appended games, no Player row
\* for a name no appended game carries, none at all while nothing was appended.
C1_SkipRecord ==
  [][ /\ (pc = "moves" /\ pc' = "idle")
         => /\ Len(hist') = Len(hist) + 1
            /\ hist'[Len(hist')] <=> Eligible(own)
      /\ Len(games') <= Len(accepted')
      /\ PlayerNames' \subseteq NamesIn(accepted')
      /\ (accepted' = << >>) => (players' = << >> /\ games' = << >>) ]_vars

\* a skipped game, then an appended one, which got its row
C1_Witness ==
  /\ pc = "done"
  /\ hist = << FALSE, TRUE >>
  /\ Len(games) = 1
  /\ Len(players) = 1

\* the code the data model gives an outcome: white-win 1, black-win 2, draw 3
CodeOf(o) ==
  CASE o = WhiteWins -> 1
    [] o = BlackWins -> 2
    [] o = Draw -> 3

\* the row stored for an appended record: both names, the date, the outcome code,
\* the text of the moves
RecKey(rec) ==
  << rec.white.name, rec.black.name, rec.date,
     IF IsSome(rec.outcome) THEN Some(CodeOf(Unwrap(rec.outcome))) ELSE None,
     moves_join(rec.moves) >>

RowKey(row) ==
  << NameOfId(row.white), NameOfId(row.black), row.date, row.outcome, row.moves >>

\* C2: every Game row has an outcome code of 1, 2 or 3, and it is the code of the
\* decoded Result of an appended game with the row's players, date and moves
\* (white-win 1, black-win 2, draw 3); a game without Result header leaves no row.
C2_OutcomeExclusive ==
  \A i \in DOMAIN games :
    /\ games[i].outcome \in { Some(1), Some(2), Some(3) }
    /\ \E j \in DOMAIN accepted :
         IsSome(accepted[j].outcome) /\ RecKey(accepted[j]) = RowKey(games[i])

\* a game without Result header was appended and refused by the table, after rows
\* of a black win and of a draw were stored
C2_Witness ==
  /\ pc = "done"
  /\ \E j \in DOMAIN accepted : accepted[j].outcome = None /\ IsSome(accepted[j].date)
  /\ sends = << TRUE, FALSE >>
  /\ { games[i].outcome : i \in DOMAIN games } = { Some(2), Some(3) }

\* the Game rows a player id is white or black of
GamesOf(id) == { i \in DOMAIN games : games[i].white = id \/ games[i].black = id }

\* C3 (as claimed): every Player row's game_count is the number of Game rows in
\* which the player is white or black, a game of a player against himself counted once.
C3_CounterInvariant ==
  run = 1 => \A i \in DOMAIN players :
               players[i].game_count = Cardinality(GamesOf(players[i].id))

\* C4 (as claimed): when convert_pgn has returned Ok, there is one Player row per
\* name and the names of the Player rows are the names of the appended games.
C4_DedupInvariant ==
  (run = 1 /\ ret = "Ok") =>
     /\ \A i, j \in DOMAIN players : players[i].name = players[j].name => i = j
     /\ PlayerNames = NamesIn(accepted)
     /\ Len(players) = Cardinality(NamesIn(accepted))

\* C5 (as claimed): a send that fails leaves the tables as they were before it.
C5_BatchAtomic ==
  [][ (Len(sends') > Len(sends) /\ ~sends'[Len(sends')])
        => (players' = players /\ games' = games) ]_vars

RECURSIVE MapKeys(_)
MapKeys(recs) ==
  IF recs = << >> THEN << >> ELSE << RecKey(Head(recs)) >> \o MapKeys(Tail(recs))

\* the names of the records of a sequence in the order of their first appearance,
\* white before black
RECURSIVE FirstSeen(_, _)
FirstSeen(recs, seen) ==
  IF recs = << >> THEN seen
  ELSE LET w == Head(recs).white.name
           b == Head(recs).black.name
           s1 == IF IsSome(w) /\ \A i \in DOMAIN seen : seen[i] # Unwrap(w)
                 THEN Append(seen, Unwrap(w)) ELSE seen
           s2 == IF IsSome(b) /\ \A i \in DOMAIN s1 : s1[i] # Unwrap(b)
                 THEN Append(s1, Unwrap(b)) ELSE s1
       IN FirstSeen(Tail(recs), s2)

\* C6: once convert_pgn has made its final send and no send failed, the buffer is
\* empty, the Game rows are the appended games, each once, in the order they were
\* read, with increasing ids, and the Player rows are their names in the order of
\* first appearance.
C6_OrderedComplete ==
  (run = 1 /\ pc = "done" /\ AllSendsOk) =>
     /\ batch = << >>
     /\ ret = "Ok"
     /\ [i \in DOMAIN games |-> RowKey(games[i])] = MapKeys(accepted)
     /\ \A i \in DOMAIN games : games[i].id = i
     /\ [i \in DOMAIN players |-> players[i].name] = FirstSeen(accepted, << >>)

\* three games stored by two sends that both succeeded, the first from end_game
C6_Witness ==
  /\ pc = "done"
  /\ batch_size = 2
  /\ sends = << TRUE, TRUE >>
  /\ Len(games) = 3
  /\ Len(players) = 2
  /\ games[1].white # games[2].white

\* C7 (as claimed): convert_pgn run again for the same archive and database file
\* leaves the tables as the first run left them.
C7_ReingestOverwrites ==
  (run = 2 /\ pc = "done") => (players = first.players /\ games = first.games)

\* a request without its limit and offset
Unpaginated(q) == [q EXCEPT !.limit = None, !.offset = None]

\* C8: get_games returns no count exactly when skip_count is set, and else the number
\* of rows its data query returns for the same filters without limit and offset,
\* whatever the limit, the offset and the sort of the request; so does get_players.
C8_QueryConsistent ==
  /\ resp.cmd = "get_games" =>
       /\ resp.count = None <=> resp.query.skip_count
       /\ ~resp.query.skip_count =>
            \A d \in get_games_data(players, games, Unpaginated(resp.query)) :
               resp.count = Some(Len(d))
  /\ resp.cmd = "get_players" =>
       /\ resp.count = None <=> resp.query.skip_count
       /\ ~resp.query.skip_count =>
            resp.count = Some(Len(limit_offset(
                           SelectSeq(players, LAMBDA r : players_sql_filter(resp.query, r)),
                           None, None)))

\* a filtered, sorted page shorter than its count
C8_Witness ==
  /\ resp.cmd = "get_games"
  /\ resp.query.speed = Some(Blitz)
  /\ resp.query.sort = Some("Date")
  /\ resp.query.limit = Some(1)
  /\ resp.count = Some(2)
  /\ Len(resp.data) = 1
  /\ Len(games) = 3

\* a page of players shorter than its count
C8_WitnessPlayers ==
  /\ resp.cmd = "get_players"
  /\ resp.query.name = Some(<< "a" >>)
  /\ resp.query.offset = Some(1)
  /\ resp.count = Some(2)
  /\ Len(resp.data) = 1

\* whether a stored game satisfies the filters of a request: its white player has
\* the name player1, its speed and its outcome are those asked for
Matches(q, g) ==
  /\ IsSome(q.player1) => NameOfId(g.white) = q.player1
  /\ IsSome(q.speed) => g.speed = q.speed
  /\ IsSome(q.outcome) => g.outcome = Some(CodeOf(Unwrap(q.outcome)))

Matching(q) == { i \in DOMAIN games : Matches(q, games[i]) }

Min(a, b) == IF a < b THEN a ELSE b
Max(a, b) == IF a > b THEN a ELSE b

\* C9 (as claimed): with limit L and offset O over a store with M games matching the
\* filters, get_games returns min(L, max(M - O, 0)) rows, each matching, a count of M
\* if asked for, and with a sort the rows descend in the sort key.
C9_Pagination ==
  (resp.cmd = "get_games" /\ IsSome(resp.query.limit) /\ IsSome(resp.query.offset)) =>
     LET q == resp.query
         M == Cardinality(Matching(q))
     IN /\ Len(resp.data) = Min(Unwrap(q.limit), Max(M - Unwrap(q.offset), 0))
        /\ \A i \in DOMAIN resp.data : Matches(q, resp.data[i][1])
        /\ IsSome(resp.count) => resp.count = Some(M)
        /\ \A i \in 1..(Len(resp.data) - 1) :
              order_desc(q.sort, resp.data[i], resp.data[i + 1])

\* C10 (as claimed): won counts the games the id won as white (code 1) or as black
\* (code 2), lost those it lost as white (code 2) or as black (code 1), draw its
\* games of code 3.
C10_GameInfo ==
  resp.cmd = "get_players_game_info" =>
     LET id == resp.id
         G == DOMAIN games
     IN /\ resp.info.won =
             Cardinality({ i \in G : \/ games[i].white = id /\ games[i].outcome = Some(1)
                                     \/ games[i].black = id /\ games[i].outcome = Some(2) })
        /\ resp.info.lost =
             Cardinality({ i \in G : \/ games[i].white = id /\ games[i].outcome = Some(2)
                                     \/ games[i].black = id /\ games[i].outcome = Some(1) })
        /\ resp.info.draw =
             Cardinality({ i \in G : /\ games[i].white = id \/ games[i].black = id
                                     /\ games[i].outcome = Some(3) })

\* natural numbers beyond 2^64, as five 16-bit limbs, least significant first
BigMulAdd(x, m, a) ==
  LET t1 == x[1] * m + a
      t2 == x[2] * m + t1 \div 65536
      t3 == x[3] * m + t2 \div 65536
      t4 == x[4] * m + t3 \div 65536
      t5 == x[5] * m + t4 \div 65536
  IN << t1 % 65536, t2 % 65536, t3 % 65536, t4 % 65536, t5 >>

BigAdd(x, y) ==
  LET t1 == x[1] + y[1]
      t2 == x[2] + y[2] + t1 \div 65536
      t3 == x[3] + y[3] + t2 \div 65536
      t4 == x[4] + y[4] + t3 \div 65536
      t5 == x[5] + y[5] + t4 \div 65536
  IN << t1 % 65536, t2 % 65536, t3 % 65536, t4 % 65536, t5 >>

RECURSIVE BigLessFrom(_, _, _)
BigLessFrom(x, y, k) ==
  IF k = 0 THEN FALSE
  ELSE IF x[k] # y[k] THEN x[k] < y[k]
  ELSE BigLessFrom(x, y, k - 1)

BigLess(x, y) == BigLessFrom(x, y, 5)

\* the number a text of decimal digits writes
RECURSIVE BigOfDecimal(_)
BigOfDecimal(s) ==
  IF s = << >> THEN << 0, 0, 0, 0, 0 >>
  ELSE BigMulAdd(BigOfDecimal(SubSeq(s, 1, Len(s) - 1)), 10, DigitVal(s[Len(s)]))

\* a text that writes an unsigned 64-bit number: digits, at least one, below 2^64
IsU64Text(s) ==
  /\ Len(s) >= 1
  /\ \A i \in 1..Len(s) : IsDigit(s[i])
  /\ BigOfDecimal(s)[5] = 0

\* base + 40 * increment, the sum itself
BigTotal(base, increment) == BigAdd(base, BigMulAdd(increment, 40, 0))

\* the category of a total by the thresholds of the classifier
Bucket(total) ==
  LET below(n) == total[1] < n /\ total[2] = 0 /\ total[3] = 0 /\ total[4] = 0
                  /\ total[5] = 0
  IN IF below(30) THEN UltraBullet
     ELSE IF below(180) THEN Bullet
     ELSE IF below(480) THEN Blitz
     ELSE IF below(1500) THEN Rapid
     ELSE IF below(21600) THEN Classical
     ELSE Correspondence

\* whether a text is <base>+<increment> with both parts unsigned 64-bit numbers
ClockAt(b, p) ==
  /\ b[p] = "+"
  /\ IsU64Text(SubSeq(b, 1, p - 1))
  /\ IsU64Text(SubSeq(b, p + 1, Len(b)))

\* C11 (as claimed): for every base and increment the classifier returns the category
\* of total = base + 40 * increment by the thresholds 30, 180, 480, 1500, 21600; the
\* text "-" gives Correspondence; a text without '+' or with a part that is no number
\* gives an error and no category.
C11_Buckets ==
  resp.cmd = "from_bytes" =>
    LET b == resp.bytes
    IN IF b = << "-" >> THEN resp.result = SpeedOk(Correspondence)
       ELSE IF \E p \in 1..Len(b) : ClockAt(b, p)
            THEN LET p == CHOOSE q \in 1..Len(b) : ClockAt(b, q)
                 IN resp.result =
                      SpeedOk(Bucket(BigTotal(BigOfDecimal(SubSeq(b, 1, p - 1)),
                                              BigOfDecimal(SubSeq(b, p + 1, Len(b))))))
            ELSE resp.result = SpeedErr

\* C12 (as claimed): for any two pairs (base, increment) of unsigned 64-bit numbers
\* the classifier returns a category for both, the same category if the sums
\* base + 40 * increment are equal, and no faster category for the larger sum.
C12_Monotonic ==
  resp.cmd = "from_seconds_and_increment" =>
    LET t1 == BigTotal(resp.seconds1 \o << 0 >>, resp.increment1 \o << 0 >>)
        t2 == BigTotal(resp.seconds2 \o << 0 >>, resp.increment2 \o << 0 >>)
    IN /\ resp.result1.kind = "Ok"
       /\ resp.result2.kind = "Ok"
       /\ t1 = t2 => resp.result1.speed = resp.result2.speed
       /\ BigLess(t1, t2) => resp.result1.speed <= resp.result2.speed

\* the place in the archive of the j-th game that end_game appended
AcceptedIdx(j) ==
  CHOOSE k \in DOMAIN hist : hist[k] /\ Cardinality({ i \in 1..k : hist[i] }) = j

\* the value of the first header of a game with one of the keys, None without one
FirstOf(hs, keys) ==
  IF \E i \in DOMAIN hs : hs[i][1] \in keys
  THEN Some(hs[CHOOSE i \in DOMAIN hs :
                  hs[i][1] \in keys /\ \A j \in 1..(i - 1) : hs[j][1] \notin keys][2])
  ELSE None

\* C13 (as claimed): the date of every appended record, and of every Game row once
\* all sends went through, is the value of the first Date or UTCDate header of its
\* game, whichever of the two keys it has.
C13_DateFirstWins ==
  /\ \A j \in DOMAIN accepted :
       accepted[j].date = FirstOf(tape[AcceptedIdx(j)].headers, { "Date", "UTCDate" })
  /\ (pc = "done" /\ AllSendsOk) =>
       \A j \in DOMAIN games :
         games[j].date = FirstOf(tape[AcceptedIdx(j)].headers, { "Date", "UTCDate" })

\* the fen a game is to be stored with: absent without FEN header and for the
\* standard starting position, else the value of the header
FenOf(hs) ==
  LET v == FirstOf(hs, { "FEN" })
  IN IF v = Some(STARTFEN) THEN None ELSE v

\* C14: the fen of every appended record, and of every Game row once all sends went
\* through, is absent if its game has the standard starting position as FEN header or
\* no FEN header, whatever the game before had, and else is the value of the header.
C14_FenNormalized ==
  /\ \A j \in DOMAIN accepted : accepted[j].fen = FenOf(tape[AcceptedIdx(j)].headers)
  /\ (pc = "done" /\ AllSendsOk) =>
       /\ Len(games) = Len(accepted)
       /\ \A j \in DOMAIN games : games[j].fen = FenOf(tape[AcceptedIdx(j)].headers)

\* three rows: another position stored as it is, the standard position stored
\* absent, and a game without FEN header after a skipped game that had one
C14_Witness ==
  /\ pc = "done"
  /\ AllSendsOk
  /\ Len(tape) = 3
  /\ Len(games) = 2
  /\ hist = << TRUE, FALSE, TRUE >>
  /\ FirstOf(tape[1].headers, { "FEN" }) = Some(STARTFEN)
  /\ FirstOf(tape[2].headers, { "FEN" }) = Some(OtherFen)
  /\ FirstOf(tape[3].headers, { "FEN" }) = None
  /\ games[1].fen = None
  /\ games[2].fen = None

\* C15: the buffer holds fewer than batch_size records before and after every signal;
\* an end_game calls send exactly when it brings the buffer to batch_size records,
\* never beyond, and else leaves the buffer with the record it pushed; after every
\* call of send, failed or not, the buffer is empty.
C15_BoundedBuffer ==
  [][ /\ batch_size >= 1
      /\ Len(batch) < batch_size
      /\ Len(batch') < batch_size'
      /\ (pc = "moves" /\ pc' = "idle") =>
            LET n == Len(batch) + (IF ~skip THEN 1 ELSE 0)
            IN /\ n <= batch_size
               /\ (Len(sends') = Len(sends) + 1) <=> (n = batch_size)
               /\ (Len(sends') = Len(sends)) => Len(batch') = n
      /\ (Len(sends') > Len(sends)) => batch' = << >> ]_vars

\* end_game has brought the buffer to two records, its send failed, the buffer is empty
C15_Witness ==
  /\ pc = "idle"
  /\ batch_size = 2
  /\ Len(accepted) = 2
  /\ sends = << FALSE >>
  /\ batch = << >>

\* C16 (as claimed): when convert_pgn has returned Ok, no send of the run has failed
\* and every appended game has its Game row.
C16_SuccessComplete ==
  (run = 1 /\ ret = "Ok") =>
     /\ AllSendsOk
     /\ [i \in DOMAIN games |-> RowKey(games[i])] = MapKeys(accepted)

\* a header that is fatal for the run: a TimeControl that is neither "-" nor
\* <base>+<increment>, or a White or Black name that is no UTF-8
FatalHeader(h) ==
  \/ /\ h[1] = "TimeControl"
     /\ h[2] # << "-" >>
     /\ ~ \E p \in 1..Len(h[2]) : ClockAt(h[2], p)
  \/ /\ h[1] \in { "White", "Black" }
     /\ \E i \in 1..Len(h[2]) : h[2][i] = INVALID_BYTE

\* whether the visitor has been signalled the i-th header of the k-th game
Signalled(k, i) ==
  \/ k <= Len(hist)
  \/ k = Len(hist) + 1 /\ pc \in { "headers", "panic" } /\ i < pos
  \/ k = Len(hist) + 1 /\ pc = "moves"

FatalSignalled ==
  \E k \in DOMAIN tape : \E i \in DOMAIN tape[k].headers :
    FatalHeader(tape[k].headers[i]) /\ Signalled(k, i)

\* C17: once a fatal header has been signalled, convert_pgn has not returned Ok and
\* never does, no signal after it ends a game, and no step changes the players or the
\* games table.
C17_FatalStops ==
  /\ [](FatalSignalled => (ret # "Ok" /\ pc = "panic"))
  /\ [][ FatalSignalled =>
           (players' = players /\ games' = games /\ hist' = hist /\ ret' # "Ok") ]_vars

\* a game was stored, then the second game of three had a fatal header
C17_Witness ==
  /\ FatalSignalled
  /\ Len(tape) = 3
  /\ Len(hist) = 1
  /\ Len(games) = 1
  /\ ret = "panic"

\* how often a name is white or black in the records of a sequence
RECURSIVE Appearances(_, _)
Appearances(recs, name) ==
  IF recs = << >> THEN 0
  ELSE (IF Head(recs).white.name = Some(name) THEN 1 ELSE 0)
       + (IF Head(recs).black.name = Some(name) THEN 1 ELSE 0)
       + Appearances(Tail(recs), name)

\* the game_count stored for a name in a players table, 0 without a row
CountOf(ps, name) ==
  IF \E i \in DOMAIN ps : ps[i].name = name
  THEN ps[CHOOSE i \in DOMAIN ps : ps[i].name = name].game_count
  ELSE 0

\* C18: a send of records that all have a date and an outcome returns success
\* whichever of its increment_game_count calls fail: every record of the batch has
\* got its Game row after the rows that were there, the Player rows are those of the
\* names before and of the batch, and no game_count has moved by more than the
\* appearances of its name in the batch, nor downwards.
C18_BestEffortCounter ==
  [][ LET sent == IF pc = "moves" THEN end_game_push(batch, current, skip) ELSE batch
      IN (/\ Len(sends') > Len(sends)
          /\ \A i \in DOMAIN sent : IsSome(sent[i].date) /\ IsSome(sent[i].outcome))
         => /\ sends'[Len(sends')]
            /\ Len(games') = Len(games) + Len(sent)
            /\ SubSeq(games', 1, Len(games)) = games
            /\ \A i \in DOMAIN sent :
                  /\ games'[Len(games) + i].date = sent[i].date
                  /\ games'[Len(games) + i].moves = moves_join(sent[i].moves)
            /\ { players'[i].name : i \in DOMAIN players' } = PlayerNames \cup NamesIn(sent)
            /\ \A i \in DOMAIN players' :
                  LET n == players'[i].name
                  IN /\ players'[i].game_count >= CountOf(players, n)
                     /\ players'[i].game_count <= CountOf(players, n) + Appearances(sent, n)
    ]_vars

\* one send of two records in which every increment for A failed and the one for ab
\* went through: both Game rows are there and convert_pgn returned Ok
C18_Witness ==
  /\ pc = "done"
  /\ ret = "Ok"
  /\ batch_size = 2
  /\ sends = << TRUE, TRUE >>
  /\ Len(games) = 2
  /\ Len(players) = 2
  /\ players[1].name = NameA /\ players[1].game_count = 0
  /\ players[2].name = NameB /\ players[2].game_count = 1
  /\ games[2].white = 1 /\ games[2].black = 1

\* the id a side of a Game row is to have: 0 for a side without name, else the id of
\* the Player row of its name
SideId(ps, name) ==
  IF name = None THEN 0
  ELSE IF \E i \in DOMAIN ps : ps[i].name = Unwrap(name)
       THEN ps[CHOOSE i \in DOMAIN ps : ps[i].name = Unwrap(name)].id
       ELSE -1

\* C19: a send of records that all have a date and an outcome succeeds also where
\* records have no White or no Black name: every record gets its Game row, with id 0
\* for a side without name and the id of the name's Player row for a named side, and
\* no Player row has the id 0 or a name that no record carries.
C19_AbsentName ==
  [][ LET sent == IF pc = "moves" THEN end_game_push(batch, current, skip) ELSE batch
      IN (/\ Len(sends') > Len(sends)
          /\ \A i \in DOMAIN sent : IsSome(sent[i].date) /\ IsSome(sent[i].outcome))
         => /\ sends'[Len(sends')]
            /\ Len(games') = Len(games) + Len(sent)
            /\ \A i \in DOMAIN sent :
                  /\ games'[Len(games) + i].white = SideId(players', sent[i].white.name)
                  /\ games'[Len(games) + i].black = SideId(players', sent[i].black.name)
            /\ \A i \in DOMAIN players' :
                  /\ players'[i].id >= 1
                  /\ players'[i].name \in PlayerNames \cup NamesIn(sent)
    ]_vars

\* a game without White header and a game without Black header have their rows,
\* each with a named side, and the players table has the two names only
C19_Witness ==
  /\ pc = "done"
  /\ ret = "Ok"
  /\ Len(games) = 2
  /\ games[1].white = 0 /\ games[1].black = 1
  /\ games[2].white = 2 /\ games[2].black = 0
  /\ Len(players) = 2
  /\ players[1].name = NameB
  /\ players[2].name = NameA

\* C20 (as claimed): a get_games request without limit and offset returns every Game
\* row that satisfies its filters, with a white and a black Player row of the ids of
\* the game, and counts every such row.
C20_EveryGameVisible ==
  (resp.cmd = "get_games" /\ resp.query.limit = None /\ resp.query.offset = None) =>
     /\ \A i \in Matching(resp.query) :
          \E k \in DOMAIN resp.data :
             /\ resp.data[k][1] = games[i]
             /\ resp.data[k][2].id = games[i].white
             /\ resp.data[k][3].id = games[i].black
     /\ IsSome(resp.count) => Unwrap(resp.count) = Cardinality(Matching(resp.query))

\* the requests that differ from q in player2, range1, range2 or sides only
SameButUnsupported(q) ==
  { [q EXCEPT !.player2 = a, !.range1 = b, !.range2 = c, !.sides = d] :
      a \in Player2Values, b \in Range1Values, c \in Range2Values, d \in SidesValues }

\* C21: what get_games returned for a request is what it returns for every request
\* that differs from it in player2, range1, range2 or sides only: the same rows in
\* the same order (one of the orders the sort leaves open) and the same count.
C21_UnsupportedNoOp ==
  resp.cmd = "get_games" =>
    \A q2 \in SameButUnsupported(resp.query) :
      /\ resp.data \in get_games_data(players, games, q2)
      /\ resp.count = get_games_count(players, games, q2)

\* a request with all four fields set got a game that every one of them would have
\* left out: Black is not player2, the ratings are outside both ranges
C21_Witness ==
  /\ resp.cmd = "get_games"
  /\ resp.query.player2 = Some(NameB)
  /\ resp.query.range1 = Some(<< 16, 20 >>)
  /\ resp.query.range2 = Some(<< 0, 10 >>)
  /\ resp.query.sides = Some("BlackWhite")
  /\ Len(resp.data) = 1
  /\ resp.data[1][3].name = NameA
  /\ resp.data[1][1].white_rating = Some(15)
  /\ resp.data[1][1].black_rating = Some(15)
  /\ resp.count = Some(2)

====
